---- MODULE Spec2Model ----
(***************************************************************************)
(* A model of ansys.units: the algebra of Dimensions (dimensions.py), the  *)
(* construction of a UnitSystem (systems.py) and the unit registry         *)
(* (unit_registry.py).  Three specifications share the module:             *)
(*   SpecDim  - the operators of Dimensions applied to two operands        *)
(*   SpecSys  - UnitSystem.__init__ and the base_units property            *)
(*   SpecReg  - register_unit, UnitRegistry.__init__ and __setattr__       *)
(***************************************************************************)
EXTENDS Integers, Sequences, FiniteSets, TLC

VARIABLES
    a, b,           \* the two Dimensions operands (their _dimensions dicts)
    op,             \* the operator last applied to them ("none" before)
    result,         \* what that operator returned or raised
    us_args,        \* the arguments of the UnitSystem constructor call
    us_self,        \* the attributes bound on the UnitSystem under construction
    us_result,      \* outcome of the constructor / of the base_units property
    derived_units,  \* the shared module-level table _derived_units
    registries,     \* the UnitRegistry instances constructed so far
    last            \* the registry operation last executed and its outcome

dimVars == <<a, b, op, result>>
sysVars == <<us_args, us_self, us_result>>
regVars == <<derived_units, registries, last>>
vars == <<a, b, op, result, us_args, us_self, us_result,
          derived_units, registries, last>>

-----------------------------------------------------------------------------
(* Bounds *)

\* operands carry exponents in -MaxExp .. MaxExp
MaxExp == 1

-----------------------------------------------------------------------------
(* BaseDimensions *)

\* the ordered enumeration of base dimensions
BaseDimensionsOrder ==
    << "MASS", "LENGTH", "TIME", "TEMPERATURE", "TEMPERATURE_DIFFERENCE",
       "ANGLE", "CHEMICAL_AMOUNT", "LIGHT", "CURRENT", "SOLID_ANGLE" >>

BaseDimensions ==
    {BaseDimensionsOrder[i] : i \in 1..Len(BaseDimensionsOrder)}

-----------------------------------------------------------------------------
(* Dimensions: a dict {BaseDimensions: exponent} is a function whose       *)
(* domain is the set of keys.                                              *)

\* the base dimensions the operands of SpecDim are built over
OperandDims == {"MASS", "TEMPERATURE", "TEMPERATURE_DIFFERENCE"}

EmptyDict == [d \in {} |-> 0]

RECURSIVE SumValues(_)
\* sum(dims.values())
SumValues(dict) ==
    IF DOMAIN dict = {} THEN 0
    ELSE LET d == CHOOSE x \in DOMAIN dict : TRUE
         IN  dict[d] + SumValues([x \in DOMAIN dict \ {d} |-> dict[x]])

\* Dimensions.__init__ on a dict whose keys are BaseDimensions: the copy
\* without its zero entries
DimensionsInit(dict) ==
    [d \in {x \in DOMAIN dict : dict[x] # 0} |-> dict[d]]

\* what an operator gives back: a returned Python value or a raised error
\*   val: "True", "False", "None" or "Dimensions" (then dims is the object)
Return(val, dims) == [kind |-> "return", val |-> val, dims |-> dims, err |-> ""]
Raise(err) == [kind |-> "raise", val |-> "", dims |-> EmptyDict, err |-> err]
NoResult == [kind |-> "none", val |-> "", dims |-> EmptyDict, err |-> ""]

temp == [d \in {"TEMPERATURE"} |-> 1]
delta_temp == [d \in {"TEMPERATURE_DIFFERENCE"} |-> 1]

\* Dimensions._temp_precheck(self, dims2, op)
TempPrecheck(dims1, dims2, o) ==
    IF Cardinality(DOMAIN dims1) = 1 /\ Cardinality(DOMAIN dims2) = 1
    THEN IF (dims1 = temp /\ dims2 = delta_temp)
            \/ (dims1 = delta_temp /\ dims2 = temp)
         THEN Return("Dimensions", DimensionsInit(temp))
         ELSE IF (dims1 = temp /\ dims2 = temp) /\ o = "-"
              THEN Return("Dimensions", DimensionsInit(delta_temp))
              ELSE Return("None", EmptyDict)
    ELSE Return("None", EmptyDict)

\* Dimensions.__add__
DimAdd(x, y) == TempPrecheck(x, y, "None")

\* Dimensions.__sub__
DimSub(x, y) == TempPrecheck(x, y, "-")

\* Dimensions.__mul__
DimMul(x, y) ==
    DimensionsInit(
        [d \in DOMAIN x \cup DOMAIN y |->
            IF d \in DOMAIN y
            THEN IF d \in DOMAIN x THEN x[d] + y[d] ELSE y[d]
            ELSE x[d]])

\* __truediv__ with the sign of an exponent absent from the dividend kept
DimTrueDivNoNegate(x, y) ==
    DimensionsInit(
        [d \in DOMAIN x \cup DOMAIN y |->
            IF d \in DOMAIN y
            THEN IF d \in DOMAIN x THEN x[d] - y[d] ELSE y[d]
            ELSE x[d]])

\* Dimensions.__truediv__
DimTrueDiv(x, y) ==
    DimensionsInit(
        [d \in DOMAIN x \cup DOMAIN y |->
            IF d \in DOMAIN y
            THEN IF d \in DOMAIN x THEN x[d] - y[d] ELSE 0 - y[d]
            ELSE x[d]])

\* Dimensions.__eq__(self = x, __value = y): "True", "False" or "None"
DimEq(x, y) ==
    IF \E d \in DOMAIN x : d \notin DOMAIN y
    THEN "False"
    ELSE IF SumValues([d \in DOMAIN y |->
                          IF d \in DOMAIN x THEN y[d] - x[d] ELSE y[d]]) = 0
         THEN "True"
         ELSE "None"

\* Dimensions.__ne__: not self.__eq__(other)
DimNe(x, y) == IF DimEq(x, y) = "True" THEN "False" ELSE "True"

\* Dimensions.__gt__, __ge__, __lt__, __le__ (four identical bodies)
DimCompare(x, y) ==
    IF DimNe(x, y) = "True"
    THEN Raise("INCOMPARABLE_DIMENSIONS")
    ELSE Return("None", EmptyDict)

\* every canonical (zero-free) exponent dict over OperandDims
OperandSet ==
    {DimensionsInit(f) : f \in [OperandDims -> (0 - MaxExp)..MaxExp]}

Eq ==
    /\ op = "none"
    /\ op' = "=="
    /\ result' = Return(DimEq(a, b), EmptyDict)
    /\ UNCHANGED <<a, b, sysVars, regVars>>

Add ==
    /\ op = "none"
    /\ op' = "+"
    /\ result' = DimAdd(a, b)
    /\ UNCHANGED <<a, b, sysVars, regVars>>

Sub ==
    /\ op = "none"
    /\ op' = "-"
    /\ result' = DimSub(a, b)
    /\ UNCHANGED <<a, b, sysVars, regVars>>

Compare ==
    /\ op = "none"
    /\ \E o \in {"<", "<=", ">", ">="} : op' = o
    /\ result' = DimCompare(a, b)
    /\ UNCHANGED <<a, b, sysVars, regVars>>

\* (a * b) / b
MulThenDiv ==
    /\ op = "none"
    /\ op' = "*/"
    /\ result' = Return("Dimensions", DimTrueDiv(DimMul(a, b), b))
    /\ UNCHANGED <<a, b, sysVars, regVars>>

DimNext ==
    \/ Eq
    \/ Add
    \/ Sub
    \/ Compare
    \/ MulThenDiv

-----------------------------------------------------------------------------
(* UnitSystem *)

\* the model gives a UnitSystem one slot for each of the first NumSlots
\* base dimensions of the canonical order
NumSlots == 3

SlotOrder == SubSeq(BaseDimensionsOrder, 1, NumSlots)
SlotDims == {SlotOrder[i] : i \in 1..NumSlots}

\* Python None for an optional string argument
None == "<None>"

\* truth value of an optional string argument
Truthy(s) == s # None /\ s # ""

\* the predefined systems, one base unit per base dimension in canonical order
SIUnits == << "kg", "m", "s", "K", "delta_K", "radian", "mol", "cd", "A", "sr" >>
CGSUnits == << "g", "cm", "s", "K", "delta_K", "radian", "mol", "cd", "A", "sr" >>

\* ansunits._unit_systems
unit_systems ==
    [n \in {"SI", "CGS"} |->
        IF n = "SI" THEN SubSeq(SIUnits, 1, NumSlots)
        ELSE SubSeq(CGSUnits, 1, NumSlots)]

\* ansunits._fundamental_units, restricted to the units of the slots
fundamental_units ==
    {SIUnits[i] : i \in 1..NumSlots} \cup {CGSUnits[i] : i \in 1..NumSlots}

\* unit.dimensions.single_dimension.name of a fundamental unit
single_dimension(u) ==
    BaseDimensionsOrder[CHOOSE i \in 1..NumSlots : SIUnits[i] = u \/ CGSUnits[i] = u]

\* the units a caller puts in a base_units list: the fundamental ones and
\* the derived unit N
UnitNames == fundamental_units \cup {"N"}

\* the loop of UnitSystem.__init__ without the hasattr test
RECURSIVE BindUnitsNoDuplicateTest(_, _, _)
BindUnitsNoDuplicateTest(units, i, slots) ==
    IF i > Len(units) THEN [err |-> "", slots |-> slots]
    ELSE LET unit == units[i] IN
         IF unit \notin fundamental_units
         THEN [err |-> "NOT_FUNDAMENTAL", slots |-> slots]
         ELSE BindUnitsNoDuplicateTest(units, i + 1,
                 [d \in DOMAIN slots \cup {single_dimension(unit)} |->
                     IF d = single_dimension(unit) THEN unit ELSE slots[d]])

\* the loop of UnitSystem.__init__ over self._base_units from position i on;
\* slots maps the dimension names X for which self._X is set to their unit
RECURSIVE BindUnits(_, _, _)
BindUnits(units, i, slots) ==
    IF i > Len(units) THEN [err |-> "", slots |-> slots]
    ELSE LET unit == units[i] IN
         IF unit \notin fundamental_units
         THEN [err |-> "NOT_FUNDAMENTAL", slots |-> slots]
         ELSE IF single_dimension(unit) \in DOMAIN slots
              THEN [err |-> "UNIT_TYPE", slots |-> slots]
              ELSE BindUnits(units, i + 1,
                      [d \in DOMAIN slots \cup {single_dimension(unit)} |->
                          IF d = single_dimension(unit) THEN unit ELSE slots[d]])

NoSlots == [d \in {} |-> ""]
NoSelf == [name |-> None, base_units |-> << >>, slots |-> NoSlots]
SysResult(kind, err, count, list) ==
    [kind |-> kind, err |-> err, count |-> count, list |-> list]

\* UnitSystem.__init__(name, base_units, unit_sys); base_units is a record
\* [given, list], given = FALSE standing for None
UnitSystemInit(name, base_units, unit_sys) ==
    LET has_list == base_units.given /\ Len(base_units.list) > 0 IN
    IF (Truthy(name) /\ Truthy(unit_sys)) \/ (has_list /\ Truthy(unit_sys))
    THEN [self |-> NoSelf, result |-> SysResult("raise", "EXCESSIVE_PARAMETERS", 0, << >>)]
    ELSE IF has_list /\ Len(base_units.list) # NumSlots
    THEN [self |-> NoSelf,
          result |-> SysResult("raise", "BASE_UNITS_LENGTH", Len(base_units.list), << >>)]
    ELSE LET sys == IF Truthy(unit_sys) THEN unit_sys ELSE "SI" IN
         IF ~has_list /\ sys \notin DOMAIN unit_systems
         THEN [self |-> NoSelf, result |-> SysResult("raise", "INVALID_UNIT_SYS", 0, << >>)]
         ELSE LET self_name == IF has_list THEN name ELSE sys
                  self_base_units == IF has_list THEN base_units.list
                                     ELSE unit_systems[sys]
                  bound == BindUnits(self_base_units, 1, NoSlots)
                  self == [name |-> self_name, base_units |-> self_base_units,
                           slots |-> bound.slots]
              IN  IF bound.err # ""
                  THEN [self |-> self, result |-> SysResult("raise", bound.err, 0, << >>)]
                  ELSE [self |-> self, result |-> SysResult("constructed", "", 0, << >>)]

\* the UnitSystem.base_units property
BaseUnitsProperty(self) ==
    IF \E i \in 1..NumSlots : SlotOrder[i] \notin DOMAIN self.slots
    THEN SysResult("raise", "AttributeError", 0, << >>)
    ELSE SysResult("base_units", "", 0, [i \in 1..NumSlots |-> self.slots[SlotOrder[i]]])

\* the base_units lists a caller passes: every list of 0 .. NumSlots + 1 units
ListsUpTo(n) == UNION {[1..k -> UnitNames] : k \in 0..n}

BaseUnitsArgs ==
    {[given |-> FALSE, list |-> << >>]}
        \cup {[given |-> TRUE, list |-> l] : l \in ListsUpTo(NumSlots + 1)}

NoArgs == [name |-> None, base_units |-> [given |-> FALSE, list |-> << >>],
           unit_sys |-> None, called |-> FALSE]

Construct ==
    /\ us_result.kind = "none"
    /\ \E name \in {None, "custom"}, base_units \in BaseUnitsArgs,
          unit_sys \in {None, "SI", "CGS", "MKS"} :
          LET r == UnitSystemInit(name, base_units, unit_sys) IN
          /\ us_args' = [name |-> name, base_units |-> base_units,
                         unit_sys |-> unit_sys, called |-> TRUE]
          /\ us_self' = r.self
          /\ us_result' = r.result
    /\ UNCHANGED <<dimVars, regVars>>

GetBaseUnits ==
    /\ us_result.kind = "constructed"
    /\ us_result' = BaseUnitsProperty(us_self)
    /\ UNCHANGED <<us_args, us_self, dimVars, regVars>>

SysNext ==
    \/ Construct
    \/ GetBaseUnits

-----------------------------------------------------------------------------
(* Unit registry.  A Python dict is a sequence of [k, v] records with      *)
(* distinct keys, in insertion order.                                      *)

\* at most MaxRegistries UnitRegistry instances are constructed
MaxRegistries == 2

Keys(dict) == {dict[i].k : i \in 1..Len(dict)}

Lookup(dict, key) == dict[CHOOSE i \in 1..Len(dict) : dict[i].k = key].v

\* dict[key] = value: an existing key keeps its place, a new one goes last
SetItem(dict, key, value) ==
    IF key \in Keys(dict)
    THEN [i \in 1..Len(dict) |->
             IF dict[i].k = key THEN [k |-> key, v |-> value] ELSE dict[i]]
    ELSE Append(dict, [k |-> key, v |-> value])

RECURSIVE DictUpdate(_, _)
\* dict.update(other)
DictUpdate(dict, other) ==
    IF other = << >> THEN dict
    ELSE DictUpdate(SetItem(dict, Head(other).k, Head(other).v), Tail(other))

Entry(composition, factor) == [composition |-> composition, factor |-> factor]

\* base_units and derived_units of cfg.yaml
cfg_base_units == << [k |-> "kg", v |-> Entry("", 1)] >>
cfg_derived_units == << [k |-> "N", v |-> Entry("kg m s^-2", 1)] >>

\* ansys.units._base_units
base_units_table == cfg_base_units

\* the entries a caller registers; the composition "zz" names no known unit
Entries == {Entry("N m", 1), Entry("zz", 2)}

\* the names a caller registers
RegisterNames == {"kg", "N", "Q", "R"}

\* register_unit that updates the table without looking the name up
register_unit_overwrite(unit, composition, factor, derived) ==
    [raised |-> "",
     derived |-> DictUpdate(derived,
                    << [k |-> unit, v |-> Entry(composition, factor)] >>)]

\* register_unit(unit, composition, factor) on the table _derived_units
register_unit(unit, composition, factor, derived) ==
    IF unit \in Keys(base_units_table) \/ unit \in Keys(derived)
    THEN [raised |-> "UnitAlreadyRegistered", derived |-> derived]
    ELSE [raised |-> "",
          derived |-> DictUpdate(derived,
                         << [k |-> unit, v |-> Entry(composition, factor)] >>)]

\* Unit(name, config): the unit of that name with the entries of config as
\* attributes; it is raised as an error when its composition cannot be resolved
Unit(name, config) ==
    [name |-> name, composition |-> config.composition, factor |-> config.factor]

UnitResolves(name, config) == config.composition # "zz"

\* the names hasattr finds on the class UnitRegistry itself
ClassAttributes == {"__init__", "__str__", "__setattr__", "__iter__"}

\* hasattr(self, name); self is the instance's __dict__
HasAttr(self, name) == name \in Keys(self) \/ name \in ClassAttributes

\* __setattr__ that binds the name whether or not it is bound
SetAttrOverwrite(self, name, unit) ==
    [raised |-> "", self |-> SetItem(self, name, unit)]

\* UnitRegistry.__setattr__(self, name, unit)
SetAttr(self, name, unit) ==
    IF HasAttr(self, name)
    THEN [raised |-> "UnitAlreadyRegistered", self |-> self]
    ELSE [raised |-> "", self |-> SetItem(self, name, unit)]

\* unitdict built from other and the configuration file only
UnitDictWithoutDerived(config, other, derived) ==
    IF config # None
    THEN DictUpdate(other, cfg_base_units \o cfg_derived_units)
    ELSE other

\* the dict unitdict of UnitRegistry.__init__; other = << >> for None or {}
UnitDict(config, other, derived) ==
    IF config # None
    THEN DictUpdate(DictUpdate(other, derived), cfg_base_units \o cfg_derived_units)
    ELSE DictUpdate(other, derived)

RECURSIVE SetAll(_, _, _)
\* the loop of UnitRegistry.__init__ over unitdict from position i on
SetAll(unitdict, i, self) ==
    IF i > Len(unitdict) THEN [raised |-> "", self |-> self]
    ELSE IF ~UnitResolves(unitdict[i].k, unitdict[i].v)
         THEN [raised |-> "UnitError", self |-> self]
         ELSE LET r == SetAttr(self, unitdict[i].k, Unit(unitdict[i].k, unitdict[i].v))
              IN  IF r.raised # "" THEN r ELSE SetAll(unitdict, i + 1, r.self)

\* UnitRegistry.__init__(config, other)
UnitRegistryInit(config, other, derived) ==
    SetAll(UnitDict(config, other, derived), 1, << >>)

\* UnitRegistry.__iter__: the units in the order of the instance's __dict__
Iter(self) == [i \in 1..Len(self) |-> self[i].v]

\* the values of the argument other
Others == {<< >>, << [k |-> "Q", v |-> Entry("N m", 1)] >>}

\* the units a caller assigns to attributes
fps == [name |-> "ft s^-1", composition |-> "", factor |-> 1]
mph == [name |-> "mi h^-1", composition |-> "", factor |-> 1]

\* the names a caller assigns to
AssignNames == {"Q", "__iter__"}

NoUnit == [name |-> "", composition |-> "", factor |-> 0]

\* the record of an executed operation: the instance it acted on (0 for
\* none), the name and the unit or entry passed, and the error raised
Op(o, reg, name, arg, raised) ==
    [op |-> o, reg |-> reg, name |-> name, arg |-> arg, raised |-> raised]

\* the initial states: for each specification its own component before any
\* operation, the operands of SpecDim drawn from OperandSet, and the other
\* components at rest
DimInit ==
    /\ a \in OperandSet
    /\ b \in OperandSet
    /\ op = "none"
    /\ result = NoResult
    /\ us_args = NoArgs
    /\ us_self = NoSelf
    /\ us_result = SysResult("none", "", 0, << >>)
    /\ derived_units = cfg_derived_units
    /\ registries = << >>
    /\ last = Op("none", 0, "", NoUnit, "")

SysInit ==
    /\ a = EmptyDict
    /\ b = EmptyDict
    /\ op = "none"
    /\ result = NoResult
    /\ derived_units = cfg_derived_units
    /\ registries = << >>
    /\ last = Op("none", 0, "", NoUnit, "")
    /\ us_args = NoArgs
    /\ us_self = NoSelf
    /\ us_result = SysResult("none", "", 0, << >>)

RegInit ==
    /\ a = EmptyDict
    /\ b = EmptyDict
    /\ op = "none"
    /\ result = NoResult
    /\ us_args = NoArgs
    /\ us_self = NoSelf
    /\ us_result = SysResult("none", "", 0, << >>)
    /\ derived_units = cfg_derived_units
    /\ registries = << >>
    /\ last = Op("none", 0, "", NoUnit, "")

RegisterUnit ==
    \E unit \in RegisterNames, e \in Entries :
        LET r == register_unit(unit, e.composition, e.factor, derived_units) IN
        /\ derived_units' = r.derived
        /\ last' = Op("register_unit", 0, unit, Unit(unit, e), r.raised)
        /\ UNCHANGED <<registries, dimVars, sysVars>>

NewRegistry ==
    /\ Len(registries) < MaxRegistries
    /\ \E config \in {"cfg.yaml", None}, other \in Others :
        LET r == UnitRegistryInit(config, other, derived_units) IN
        /\ registries' = IF r.raised = "" THEN Append(registries, r.self)
                         ELSE registries
        /\ last' = Op("UnitRegistry", IF r.raised = "" THEN Len(registries) + 1 ELSE 0,
                      "", NoUnit, r.raised)
        /\ UNCHANGED <<derived_units, dimVars, sysVars>>

Assign ==
    \E i \in 1..Len(registries), name \in AssignNames,
       unit \in {fps, mph} :
        LET r == SetAttr(registries[i], name, unit) IN
        /\ registries' = [registries EXCEPT ![i] = r.self]
        /\ last' = Op("setattr", i, name, unit, r.raised)
        /\ UNCHANGED <<derived_units, dimVars, sysVars>>

RegNext ==
    \/ RegisterUnit
    \/ NewRegistry
    \/ Assign

-----------------------------------------------------------------------------
(* Specifications *)

SpecDim == DimInit /\ [][DimNext]_vars

SpecSys == SysInit /\ [][SysNext]_vars

SpecReg == RegInit /\ [][RegNext]_vars

-----------------------------------------------------------------------------
(* Properties of Dimensions, checked under SpecDim *)

Ordering == {"<", "<=", ">", ">="}

\* C1: a == b returns true if and only if a and b carry the same exponent for
\* every base dimension of either (an absent one counting as 0)
C1_EqIffSameExponents ==
    op = "==" => (result.val = "True" <=> a = b)

\* C2: T - T yields dT, T + dT and dT + T yield T, T + T raises an error, and
\* + or - of any other two operands with different dimension vectors raises
\* an error instead of returning a value
C2_AddSubTemperatureOrError ==
    /\ (op = "-" /\ a = temp /\ b = temp)
          => result = Return("Dimensions", delta_temp)
    /\ (op = "+" /\ {a, b} = {temp, delta_temp})
          => result = Return("Dimensions", temp)
    /\ (op = "+" /\ a = temp /\ b = temp) => result.kind = "raise"
    /\ (op \in {"+", "-"} /\ a # b /\ {a, b} # {temp, delta_temp})
          => result.kind = "raise"

\* C3: for operands that are not dimensionally equal each of <, <=, > and >=
\* raises the incomparable-dimensions error and returns no value
C3_OrderingOfUnequalRaises ==
    (op \in Ordering /\ a # b) => result = Raise("INCOMPARABLE_DIMENSIONS")

-----------------------------------------------------------------------------
(* Properties of UnitSystem, checked under SpecSys *)

Built == us_result.kind \in {"constructed", "base_units"}

\* C5: an explicitly supplied base_units list of a length n other than the
\* number of base dimensions fails with the length error naming n, whatever
\* the other arguments are
C5_WrongLengthFails ==
    (us_args.called /\ us_args.base_units.given
        /\ Len(us_args.base_units.list) # NumSlots)
    => /\ us_result.kind = "raise"
       /\ us_result.err = "BASE_UNITS_LENGTH"
       /\ us_result.count = Len(us_args.base_units.list)

\* C6: construction from an explicit list succeeds only when the i-th unit
\* has the i-th base dimension of the canonical order
C6_OrderIsValidated ==
    (Built /\ us_args.base_units.given /\ Len(us_args.base_units.list) > 0)
    => \A i \in 1..Len(us_args.base_units.list) :
          /\ us_args.base_units.list[i] \in fundamental_units
          /\ single_dimension(us_args.base_units.list[i]) = SlotOrder[i]

\* the positions of a list whose unit is fundamental and has the base
\* dimension of an earlier fundamental unit
Duplicates(list) ==
    {j \in 1..Len(list) :
        /\ list[j] \in fundamental_units
        /\ \E i \in 1..(j - 1) : /\ list[i] \in fundamental_units
                                 /\ single_dimension(list[i]) = single_dimension(list[j])}

Least(S) == CHOOSE j \in S : \A k \in S : j <= k

-----------------------------------------------------------------------------
(* Properties of the registry, checked under SpecReg *)

\* C8: register_unit of a name among the base or derived units fails with
\* the already-registered error and leaves the tables as they were; with a
\* new name it adds exactly {name: {composition, factor}} and nothing else
C8_RegisterUnit ==
    [][last'.op = "register_unit" =>
          IF last'.name \in Keys(base_units_table) \cup Keys(derived_units)
          THEN /\ last'.raised = "UnitAlreadyRegistered"
               /\ derived_units' = derived_units
               /\ registries' = registries
          ELSE /\ last'.raised = ""
               /\ derived_units' =
                     Append(derived_units,
                            [k |-> last'.name,
                             v |-> Entry(last'.arg.composition, last'.arg.factor)])
               /\ registries' = registries]_vars

\* a registered name was registered again with another entry and refused
C8_Witness ==
    /\ last.op = "register_unit"
    /\ last.raised = "UnitAlreadyRegistered"
    /\ last.name \in Keys(derived_units) \ Keys(cfg_derived_units)
    /\ Lookup(derived_units, last.name)
          # Entry(last.arg.composition, last.arg.factor)

\* C9: on an instance every name is bound at most once: assigning a bound
\* name fails with the already-registered error and changes no binding, so
\* bound names stay bound to their first unit
C9_NamesBoundOnce ==
    [][/\ \A i \in 1..Len(registries) :
             /\ i <= Len(registries')
             /\ \A n \in Keys(registries[i]) :
                   /\ n \in Keys(registries'[i])
                   /\ Lookup(registries'[i], n) = Lookup(registries[i], n)
       /\ \A i \in 1..Len(registries') :
             Cardinality(Keys(registries'[i])) = Len(registries'[i])
       /\ (last'.op = "setattr" /\ last'.name \in Keys(registries[last'.reg]))
             => /\ last'.raised = "UnitAlreadyRegistered"
                /\ registries' = registries
       /\ (last'.op = "setattr" /\ last'.raised = "")
             => /\ Keys(registries'[last'.reg])
                      = Keys(registries[last'.reg]) \cup {last'.name}
                /\ Lookup(registries'[last'.reg], last'.name) = last'.arg]_vars

\* a name bound by an earlier assignment was assigned another unit and refused
C9_Witness ==
    /\ last.op = "setattr"
    /\ last.raised = "UnitAlreadyRegistered"
    /\ last.name \in Keys(registries[last.reg])
    /\ Lookup(registries[last.reg], last.name) \in {fps, mph}
    /\ Lookup(registries[last.reg], last.name) # last.arg

\* C10: a name registered with register_unit stays in the shared table and is
\* bound, to a unit of that name, on every UnitRegistry constructed
\* afterwards; the instances that exist when register_unit is called keep
\* their names and yield the same units when iterated
C10_RegistrySnapshot ==
    [][/\ Keys(derived_units) \subseteq Keys(derived_units')
       /\ (last'.op = "register_unit" /\ last'.raised = "")
             => last'.name \in Keys(derived_units')
       /\ (last'.op = "UnitRegistry" /\ last'.raised = "")
             => /\ Len(registries') = Len(registries) + 1
                /\ last'.reg = Len(registries')
                /\ \A n \in Keys(derived_units) :
                      /\ n \in Keys(registries'[last'.reg])
                      /\ Lookup(registries'[last'.reg], n).name = n
       /\ last'.op = "register_unit"
             => /\ Len(registries') = Len(registries)
                /\ \A i \in 1..Len(registries) :
                      /\ Keys(registries'[i]) = Keys(registries[i])
                      /\ Iter(registries'[i]) = Iter(registries[i])]_vars

\* Q was registered after the first instance was built and before the second
C10_Witness ==
    /\ Len(registries) = 2
    /\ "Q" \in Keys(derived_units)
    /\ "Q" \notin Keys(registries[1])
    /\ "Q" \in Keys(registries[2])
    /\ Lookup(registries[2], "Q") = Unit("Q", Lookup(derived_units, "Q"))

====
